---- MODULE Spec2Model ----
(***************************************************************************)
(* ImagesToNerfstudioDataset.main                                          *)
(* (nerfstudio/process_data/images_to_nerfstudio_dataset.py).              *)
(*                                                                         *)
(* main is one sequential batch job.  The state is the dataclass fields    *)
(* main reads and writes, main's local names (a local that has not been    *)
(* assigned yet is Unbound), the part of the file system main looks at,    *)
(* and the calls it has made to its collaborators.  Every statement group  *)
(* of main is one action; pc is main's position.                           *)
(***************************************************************************)
EXTENDS Integers, Sequences, FiniteSets, TLC

VARIABLES
    pc,                    \* position of main: the stage about to execute
    err,                   \* "" or the exception that ended the run
    \* ---- fields of self
    colmap_model_path,     \* "default" (default_colmap_path()) or "custom"
    skip_colmap,
    skip_image_processing,
    camera_type,
    data,                  \* the working input path
    percent_radius_crop,   \* in tenths: 10 is 1.0
    frame_mask_path,
    depth_path,
    \* ---- locals of main
    require_cameras_exist,
    image_rename_map,
    num_frames,
    mask_path,
    output_depth_path,
    copied_depth_images,
    image_id_to_depth_path,
    summary_log,
    \* ---- the world
    fs,                    \* what exists on disk
    calls,                 \* collaborator calls made so far, in order
    handed,                \* the arguments _save_transforms was called with
    manifest,              \* the arguments the manifest was written from
    console                \* the summary lines printed at the end

config == <<colmap_model_path, skip_colmap, skip_image_processing,
            percent_radius_crop, frame_mask_path, depth_path>>
locals == <<require_cameras_exist, image_rename_map, num_frames, mask_path,
            output_depth_path, copied_depth_images, image_id_to_depth_path,
            summary_log>>
vars == <<pc, err, config, camera_type, data, locals, fs, calls, handed, manifest,
          console>>

-----------------------------------------------------------------------------
(* Bounds of the model *)

\* at most this many images in the data folder
MaxImages == 2
\* at most this many images in the external depth folder
MaxDepthImages == 2
\* planar projections generated per equirectangular image
images_per_equirect == 2

-----------------------------------------------------------------------------
(* Python values *)

Unbound == [tag |-> "Unbound"]
None == [tag |-> "None"]
Val(v) == [tag |-> "val", val |-> v]

\* pathlib.Path: parent / (stem + suffix)
MkPath(parent, stem, suffix) == [parent |-> parent, stem |-> stem, suffix |-> suffix]
Name(p) == p.stem \o p.suffix

RECURSIVE NumDigits(_)
NumDigits(n) == IF n < 10 THEN 1 ELSE 1 + NumDigits(n \div 10)

RECURSIVE Zeros(_)
Zeros(k) == IF k <= 0 THEN "" ELSE "0" \o Zeros(k - 1)

\* f"{count:05}": zero-padded to at least five digits
Format05(count) == Zeros(5 - NumDigits(count)) \o ToString(count)

\* f"frame_{count:05}{suffix}"
FrameName(count, suffix) == "frame_" \o Format05(count) \o suffix

-----------------------------------------------------------------------------
(* The folders main is given *)

DataDir == "data"
DepthSrcDir == "depth_src"
ProjectionDir == "data/planar_projections"
ImageDir == "images"
DepthOutDir == "depth"
MasksDir == "masks"

SuffixOf(i) == IF i % 2 = 1 THEN ".jpg" ELSE ".png"

\* strictly increasing sequences over 1..n: the sorted listings of a folder
Increasing(n) ==
    UNION { { s \in [1..k -> 1..n] : \A i \in 1..k, j \in 1..k : i < j => s[i] < s[j] }
            : k \in 0..n }

ImageFile(dir, i) == MkPath(dir, "img" \o ToString(i), SuffixOf(i))
DepthFile(dir, i) == MkPath(dir, "d" \o ToString(i), SuffixOf(i + 1))

ImageListings(dir, n) ==
    { [k \in 1..Len(s) |-> ImageFile(dir, s[k])] : s \in Increasing(n) }
DepthListings(dir, n) ==
    { [k \in 1..Len(s) |-> DepthFile(dir, s[k])] : s \in Increasing(n) }

NoImages == << >>

-----------------------------------------------------------------------------
(* Collaborators: process_data_utils, equirect_utils and the parent class  *)

\* process_data_utils.list_images(dir): the images of the folder, sorted
list_images(dir) == fs.listing[dir]

\* equirect_utils.generate_planar_projections_from_equirectangular: the
\* folder of projections, images_per_equirect of them per source image
PlanarProjections(images) ==
    [k \in 1..(Len(images) * images_per_equirect) |->
        MkPath(ProjectionDir,
               images[((k - 1) \div images_per_equirect) + 1].stem \o "_"
                   \o ToString((k - 1) % images_per_equirect),
               ".jpg")]

\* a copy that goes on with an empty folder
CopyImagesNeverFails(images) == FALSE

\* process_data_utils.copy_images ends the run when the folder holds no image
CopyImagesFails(images) == Len(images) = 0

\* process_data_utils.copy_images: the ordered mapping original path -> copied
\* path; the copies are numbered from 1 in listing order and keep the suffix
copy_images(images, image_dir) ==
    [k \in 1..Len(images) |->
        [orig |-> images[k],
         new |-> MkPath(image_dir, "frame_" \o Format05(k), images[k].suffix)]]

\* process_data_utils.save_mask writes masks/mask.png when a circular crop
\* (percent radius other than 1.0) or per-frame masks are asked for
SaveMaskProduces(percent_radius, frame_mask) ==
    percent_radius # 10 \/ frame_mask # ""

\* ColmapConverterToNerfstudioDataset._export_depth: a table keyed by the
\* reconstruction's image ids and the summary lines about it
ExportDepthResults(n) ==
    { [table |-> << >>, log |-> << >>],
      [table |-> [i \in 1..n |-> DepthOutDir \o "/" \o FrameName(i, ".png")],
       log |-> << "Processed " \o ToString(n) \o " depth maps" >>] }

-----------------------------------------------------------------------------
(* The exceptions that end a run *)

ErrSkipColmapNotSet ==
    "RuntimeError: The --colmap-model-path can only be used when --skip-colmap is not set."
ErrModelPathMissing == "RuntimeError: The colmap-model-path does not exist."
ErrNoUsableImages == "RuntimeError: No usable images in the data folder."
ErrCamerasMissing == "RuntimeError: Could not find existing COLMAP results"
ErrUnboundDepthImages == "UnboundLocalError: copied_depth_images"
ErrCopyNoImages == "SystemExit: No usable images in the data folder."
ErrCollaborator == "exception raised inside a collaborator"

\* the fatal errors main raises itself or gets from the image copy
PipelineFatal ==
    {ErrSkipColmapNotSet, ErrModelPathMissing, ErrNoUsableImages,
     ErrCamerasMissing, ErrCopyNoImages}

-----------------------------------------------------------------------------
(* The decisions main takes *)

\* the check with the test of skip_colmap left out
ArgsErrorSkipUnchecked(model_path, skip, exists) ==
    IF model_path # "default" /\ ~exists THEN ErrModelPathMissing ELSE ""

\* the check of the reconstruction-result path: "" when it passes
ArgsError(model_path, skip, exists) ==
    IF model_path # "default"
    THEN IF ~skip THEN ErrSkipColmapNotSet
         ELSE IF ~exists THEN ErrModelPathMissing
         ELSE ""
    ELSE ""

\* require_cameras_exist once the check of the path has passed
RequireAfterArgs(model_path) == model_path # "default"

\* the camera type left as it was
ProjectedCameraTypeKept(ct) == ct

\* self.camera_type after the projections were generated
ProjectedCameraType(ct) == "perspective"

\* dict((a.name, b.name) for a, b in image_rename_map_paths.items())
NameMap(copied) ==
    [n \in { Name(copied[k].orig) : k \in DOMAIN copied } |->
        Name(copied[CHOOSE k \in DOMAIN copied : Name(copied[k].orig) = n].new)]

\* the table kept after reconstruction
RenameMapKept(map) == map

\* image_rename_map after self._run_colmap()
RenameMapAfterColmap(map) == None

\* the depth table built from the copied external depth images
DepthTable(copied, out_dir) ==
    [count \in 1..Len(copied) |->
        out_dir \o "/" \o FrameName(count, copied[count].orig.suffix)]

\* the test with its negation lost
CamerasMissingNegationLost(required, exists) == required /\ exists

\* the condition under which the missing cameras.bin is fatal
CamerasMissing(required, exists) == required /\ ~exists

\* the two references exchanged
MaskReferenceSwapped(masks_exist, frame_mask) ==
    IF masks_exist
    THEN IF frame_mask # "" THEN Val("masks/mask.png") ELSE Val(MasksDir)
    ELSE None

\* the reference lost
MaskReferenceDropped(masks_exist, frame_mask) == None

\* the mask reference handed to _save_transforms
MaskReference(masks_exist, frame_mask) ==
    IF masks_exist
    THEN IF frame_mask = "" THEN Val("masks/mask.png") ELSE Val(MasksDir)
    ELSE None

\* the check of cameras.bin placed after _save_transforms
StageAfterSaveBeforeCheck(stage) ==
    CASE stage = "args" -> "equirect"
      [] stage = "equirect" -> "images"
      [] stage = "images" -> "colmap"
      [] stage = "colmap" -> "depth"
      [] stage = "depth" -> "mask"
      [] stage = "mask" -> "save_transforms"
      [] stage = "save_transforms" -> "cameras"
      [] stage = "cameras" -> "print"
      [] stage = "print" -> "done"

\* the check of cameras.bin placed before the depth export
StageAfterCheckBeforeDepth(stage) ==
    CASE stage = "args" -> "equirect"
      [] stage = "equirect" -> "images"
      [] stage = "images" -> "colmap"
      [] stage = "colmap" -> "cameras"
      [] stage = "cameras" -> "depth"
      [] stage = "depth" -> "mask"
      [] stage = "mask" -> "save_transforms"
      [] stage = "save_transforms" -> "print"
      [] stage = "print" -> "done"

\* the order of main's statements
StageAfter(stage) ==
    CASE stage = "args" -> "equirect"
      [] stage = "equirect" -> "images"
      [] stage = "images" -> "colmap"
      [] stage = "colmap" -> "depth"
      [] stage = "depth" -> "cameras"
      [] stage = "cameras" -> "mask"
      [] stage = "mask" -> "save_transforms"
      [] stage = "save_transforms" -> "print"
      [] stage = "print" -> "done"

-----------------------------------------------------------------------------
(* The state before main is called *)

Worlds ==
    { w \in [model_path : BOOLEAN, cameras_bin : BOOLEAN, masks_dir : BOOLEAN,
             listing : { [d \in {DataDir, DepthSrcDir, ProjectionDir} |->
                             CASE d = DataDir -> im
                               [] d = DepthSrcDir -> dp
                               [] d = ProjectionDir -> NoImages]
                         : im \in ImageListings(DataDir, MaxImages),
                           dp \in DepthListings(DepthSrcDir, MaxDepthImages) }] :
        w.cameras_bin => w.model_path }

Init ==
    /\ pc = "args"
    /\ err = ""
    /\ colmap_model_path \in {"default", "custom"}
    /\ skip_colmap \in BOOLEAN
    /\ skip_image_processing \in BOOLEAN
    /\ camera_type \in {"perspective", "equirectangular"}
    /\ data = DataDir
    /\ percent_radius_crop \in {10, 8}
    /\ frame_mask_path \in {"", "frame_masks"}
    /\ depth_path \in {"", DepthSrcDir}
    /\ require_cameras_exist = Unbound
    /\ image_rename_map = Unbound
    /\ num_frames = Unbound
    /\ mask_path = Unbound
    /\ output_depth_path = Unbound
    /\ copied_depth_images = Unbound
    /\ image_id_to_depth_path = Unbound
    /\ summary_log = Unbound
    /\ fs \in Worlds
    /\ calls = << >>
    /\ handed = None
    /\ manifest = None
    /\ console = None

Called(fn, arg) == calls' = Append(calls, [fn |-> fn, arg |-> arg])

Abort(e) == pc' = "error" /\ err' = e

-----------------------------------------------------------------------------
(* main, statement group by statement group *)

\* require_cameras_exist, the check of colmap_model_path, image_rename_map = None
CheckArgs ==
    /\ pc = "args"
    /\ LET e == ArgsError(colmap_model_path, skip_colmap, fs.model_path) IN
       IF e # ""
       THEN /\ Abort(e)
            /\ require_cameras_exist' = Val(FALSE)
            /\ UNCHANGED image_rename_map
       ELSE /\ pc' = StageAfter("args")
            /\ err' = err
            /\ require_cameras_exist' = Val(RequireAfterArgs(colmap_model_path))
            /\ image_rename_map' = None
    /\ UNCHANGED <<config, camera_type, data, num_frames, mask_path, output_depth_path,
                   copied_depth_images, image_id_to_depth_path, summary_log,
                   fs, calls, handed, manifest, console>>

\* Generate planar projections if equirectangular; summary_log = []
Equirect ==
    /\ pc = "equirect"
    /\ IF camera_type = "equirectangular"
       THEN /\ Called("generate_planar_projections_from_equirectangular", data)
            /\ \E outcome \in {"returns", "raises"} :
                IF outcome = "raises"
                THEN /\ Abort(ErrCollaborator)
                     /\ UNCHANGED <<data, camera_type, summary_log, fs>>
                ELSE /\ fs' = [fs EXCEPT !.listing[ProjectionDir] =
                                   PlanarProjections(list_images(data))]
                     /\ data' = ProjectionDir
                     /\ camera_type' = ProjectedCameraType(camera_type)
                     /\ summary_log' = Val(<< >>)
                     /\ pc' = StageAfter("equirect")
                     /\ err' = err
       ELSE /\ summary_log' = Val(<< >>)
            /\ pc' = StageAfter("equirect")
            /\ UNCHANGED <<err, data, camera_type, fs, calls>>
    /\ UNCHANGED <<config, require_cameras_exist, image_rename_map, num_frames,
                   mask_path, output_depth_path, copied_depth_images,
                   image_id_to_depth_path, handed, manifest, console>>

\* Copy and downscale images
CopyImages ==
    /\ pc = "images"
    /\ ~skip_image_processing
    /\ Called("copy_images", data)
    /\ \E outcome \in {"returns", "raises"} :
        IF outcome = "raises"
        THEN /\ Abort(ErrCollaborator)
             /\ UNCHANGED <<image_rename_map, num_frames, summary_log>>
        ELSE IF CopyImagesFails(list_images(data))
        THEN /\ Abort(ErrCopyNoImages)
             /\ UNCHANGED <<image_rename_map, num_frames, summary_log>>
        ELSE LET image_rename_map_paths == copy_images(list_images(data), ImageDir)
                 map == NameMap(image_rename_map_paths)
                 n == Cardinality(DOMAIN map)
             IN /\ image_rename_map' = Val(map)
                /\ num_frames' = Val(n)
                /\ summary_log' = Val(Append(summary_log.val,
                                      "Starting with " \o ToString(n) \o " images"))
                /\ pc' = "save_mask"
                /\ err' = err
    /\ UNCHANGED <<config, camera_type, data, require_cameras_exist, mask_path,
                   output_depth_path, copied_depth_images, image_id_to_depth_path,
                   fs, handed, manifest, console>>

\* Create mask
SaveMask ==
    /\ pc = "save_mask"
    /\ Called("save_mask", frame_mask_path)
    /\ \E outcome \in {"returns", "raises"} :
        IF outcome = "raises"
        THEN /\ Abort(ErrCollaborator)
             /\ UNCHANGED <<mask_path, summary_log, fs>>
        ELSE /\ IF SaveMaskProduces(percent_radius_crop, frame_mask_path)
                THEN /\ mask_path' = Val(MasksDir \o "/mask.png")
                     /\ fs' = [fs EXCEPT !.masks_dir = TRUE]
                     /\ summary_log' = Val(Append(summary_log.val, "Saved mask(s)"))
                ELSE /\ mask_path' = None
                     /\ UNCHANGED <<summary_log, fs>>
             /\ pc' = "copy_depth"
             /\ err' = err
    /\ UNCHANGED <<config, camera_type, data, require_cameras_exist, image_rename_map,
                   num_frames, output_depth_path, copied_depth_images,
                   image_id_to_depth_path, handed, manifest, console>>

\* if self.depth_path != "": copy the external depth images
CopyDepth ==
    /\ pc = "copy_depth"
    /\ IF depth_path # ""
       THEN /\ output_depth_path' = Val(DepthOutDir)
            /\ Called("copy_images", depth_path)
            /\ \E outcome \in {"returns", "raises"} :
                IF outcome = "raises"
                THEN Abort(ErrCollaborator) /\ UNCHANGED copied_depth_images
                ELSE IF CopyImagesFails(list_images(depth_path))
                THEN Abort(ErrCopyNoImages) /\ UNCHANGED copied_depth_images
                ELSE /\ copied_depth_images' =
                            Val(copy_images(list_images(depth_path), DepthOutDir))
                     /\ pc' = StageAfter("images")
                     /\ err' = err
       ELSE /\ pc' = StageAfter("images")
            /\ UNCHANGED <<err, output_depth_path, copied_depth_images, calls>>
    /\ UNCHANGED <<config, camera_type, data, require_cameras_exist, image_rename_map,
                   num_frames, mask_path, image_id_to_depth_path, summary_log,
                   fs, handed, manifest, console>>

\* else: num_frames = len(process_data_utils.list_images(self.data))
ListImages ==
    /\ pc = "images"
    /\ skip_image_processing
    /\ Called("list_images", data)
    /\ LET n == Len(list_images(data)) IN
        /\ num_frames' = Val(n)
        /\ IF n = 0
           THEN Abort(ErrNoUsableImages) /\ UNCHANGED summary_log
           ELSE /\ summary_log' = Val(Append(summary_log.val,
                                      "Starting with " \o ToString(n) \o " images"))
                /\ pc' = StageAfter("images")
                /\ err' = err
    /\ UNCHANGED <<config, camera_type, data, require_cameras_exist, image_rename_map,
                   mask_path, output_depth_path, copied_depth_images,
                   image_id_to_depth_path, fs, handed, manifest, console>>

\* Run COLMAP
RunColmap ==
    /\ pc = "colmap"
    /\ IF ~skip_colmap
       THEN /\ require_cameras_exist' = Val(TRUE)
            /\ Called("_run_colmap", data)
            /\ \E outcome \in {"cameras.bin written", "no cameras.bin", "raises"} :
                IF outcome = "raises"
                THEN Abort(ErrCollaborator) /\ UNCHANGED <<image_rename_map, fs>>
                ELSE /\ fs' = [fs EXCEPT
                                 !.cameras_bin = (outcome = "cameras.bin written"),
                                 !.model_path = (@ \/ outcome = "cameras.bin written")]
                     /\ image_rename_map' = RenameMapAfterColmap(image_rename_map)
                     /\ pc' = StageAfter("colmap")
                     /\ err' = err
       ELSE /\ pc' = StageAfter("colmap")
            /\ UNCHANGED <<err, require_cameras_exist, image_rename_map, fs, calls>>
    /\ UNCHANGED <<config, camera_type, data, num_frames, mask_path, output_depth_path,
                   copied_depth_images, image_id_to_depth_path, summary_log,
                   handed, manifest, console>>

\* Export depth maps
ExportDepth ==
    /\ pc = "depth"
    /\ IF depth_path = ""
       THEN /\ Called("_export_depth", "")
            /\ \E outcome \in {"returns", "raises"} :
                IF outcome = "raises"
                THEN Abort(ErrCollaborator)
                     /\ UNCHANGED <<image_id_to_depth_path, summary_log>>
                ELSE \E r \in ExportDepthResults(num_frames.val) :
                     /\ image_id_to_depth_path' = Val(r.table)
                     /\ summary_log' = Val(summary_log.val \o r.log)
                     /\ pc' = StageAfter("depth")
                     /\ err' = err
       ELSE /\ IF copied_depth_images = Unbound
               THEN /\ image_id_to_depth_path' = Val(<< >>)
                    /\ Abort(ErrUnboundDepthImages)
               ELSE /\ image_id_to_depth_path' =
                           Val(DepthTable(copied_depth_images.val, output_depth_path.val))
                    /\ pc' = StageAfter("depth")
                    /\ err' = err
            /\ UNCHANGED <<summary_log, calls>>
    /\ UNCHANGED <<config, camera_type, data, require_cameras_exist, image_rename_map,
                   num_frames, mask_path, output_depth_path, copied_depth_images,
                   fs, handed, manifest, console>>

\* if require_cameras_exist and not (... / "cameras.bin").exists(): raise
CheckCameras ==
    /\ pc = "cameras"
    /\ IF CamerasMissing(require_cameras_exist.val, fs.cameras_bin)
       THEN Abort(ErrCamerasMissing)
       ELSE pc' = StageAfter("cameras") /\ err' = err
    /\ UNCHANGED <<config, camera_type, data, locals, fs, calls, handed, manifest,
                   console>>

\* mask_path = self.image_dir.parent / "masks" ...
ResolveMask ==
    /\ pc = "mask"
    /\ mask_path' = MaskReference(fs.masks_dir, frame_mask_path)
    /\ pc' = StageAfter("mask")
    /\ UNCHANGED <<err, config, camera_type, data, require_cameras_exist,
                   image_rename_map, num_frames, output_depth_path,
                   copied_depth_images, image_id_to_depth_path, summary_log,
                   fs, calls, handed, manifest, console>>

\* summary_log += self._save_transforms(...)
SaveTransforms ==
    /\ pc = "save_transforms"
    /\ Called("_save_transforms", "")
    /\ LET args == [num_frames |-> num_frames,
                    image_id_to_depth_path |-> image_id_to_depth_path,
                    mask_path |-> mask_path,
                    image_rename_map |-> image_rename_map,
                    camera_type |-> camera_type]
       IN /\ handed' = Val(args)
          /\ \E outcome \in {"returns", "raises"} :
              IF outcome = "raises"
              THEN Abort(ErrCollaborator) /\ UNCHANGED <<manifest, summary_log>>
              ELSE /\ manifest' = Val(args)
                   /\ summary_log' = Val(Append(summary_log.val, "transforms written"))
                   /\ pc' = StageAfter("save_transforms")
                   /\ err' = err
    /\ UNCHANGED <<config, camera_type, data, require_cameras_exist, image_rename_map,
                   num_frames, mask_path, output_depth_path, copied_depth_images,
                   image_id_to_depth_path, fs, console>>

\* All DONE; the summary is printed
PrintSummary ==
    /\ pc = "print"
    /\ console' = Val(summary_log.val)
    /\ pc' = StageAfter("print")
    /\ UNCHANGED <<err, config, camera_type, data, locals, fs, calls, handed,
                   manifest>>

Next ==
    \/ CheckArgs
    \/ Equirect
    \/ CopyImages
    \/ SaveMask
    \/ CopyDepth
    \/ ListImages
    \/ RunColmap
    \/ ExportDepth
    \/ CheckCameras
    \/ ResolveMask
    \/ SaveTransforms
    \/ PrintSummary

Spec == Init /\ [][Next]_vars

-----------------------------------------------------------------------------
(* Properties *)

FnCalled(fn) == \E i \in DOMAIN calls : calls[i].fn = fn
TimesCalled(fn) == Cardinality({ i \in DOMAIN calls : calls[i].fn = fn })
CamerasRequired == ~skip_colmap \/ colmap_model_path # "default"

\* C1 as stated: in every run, if cameras.bin does not exist once the
\* reconstruction stage is over, the run ends with a fatal error and
\* _save_transforms is never invoked.
C1_EveryRunNeedsCameras ==
    (handed # None \/ pc = "done") => fs.cameras_bin

\* C1 amended: if reconstruction was run or a reconstruction-result path other
\* than the default was supplied, and cameras.bin does not exist once the
\* reconstruction stage is over, the run ends with a fatal error and
\* _save_transforms is never invoked; a run that skips reconstruction with the
\* default path is not checked for cameras.bin.
C1_RequiredCamerasChecked ==
    /\ (CamerasRequired /\ (handed # None \/ pc \in {"mask", "save_transforms", "print", "done"}))
          => fs.cameras_bin
    /\ err = ErrCamerasMissing
          => (pc = "error" /\ CamerasRequired /\ ~fs.cameras_bin /\ handed = None)

C1_Witness ==
    /\ pc = "error" /\ err = ErrCamerasMissing
    /\ skip_colmap /\ colmap_model_path = "custom"
    /\ ~fs.cameras_bin /\ handed = None

\* C2 as stated: with the masks folder on disk the mask reference is the masks
\* folder, unless a per-frame mask path is configured, and then it is the
\* literal "masks/mask.png"; without the folder it is None.
C2_LiteralWhenPerFrame ==
    handed # None =>
        handed.val.mask_path =
            IF fs.masks_dir
            THEN IF frame_mask_path # "" THEN Val("masks/mask.png") ELSE Val("masks")
            ELSE None

\* C2 amended: with the masks folder on disk the mask reference is the literal
\* "masks/mask.png", unless a per-frame mask path is configured, and then it is
\* the masks folder; without the folder it is None.
C2_FolderWhenPerFrame ==
    handed # None =>
        /\ (fs.masks_dir /\ frame_mask_path = "")
              => handed.val.mask_path = Val("masks/mask.png")
        /\ (fs.masks_dir /\ frame_mask_path # "")
              => handed.val.mask_path = Val("masks")
        /\ ~fs.masks_dir => handed.val.mask_path = None

C2_Witness ==
    /\ handed # None
    /\ fs.masks_dir /\ frame_mask_path # ""
    /\ handed.val.mask_path = Val("masks")

\* C3: the name translation table handed to _save_transforms is None in every
\* run in which reconstruction ran; in a run that skipped reconstruction it is
\* what preprocessing produced: the table original name -> copied name when
\* the images were copied, None when image processing was skipped.
C3_RenameMapHanded ==
    handed # None =>
        LET m == handed.val.image_rename_map
            imgs == fs.listing[data]
        IN IF ~skip_colmap \/ skip_image_processing
           THEN m = None
           ELSE /\ m.tag = "val"
                /\ DOMAIN m.val = { Name(imgs[k]) : k \in 1..Len(imgs) }
                /\ \A k \in 1..Len(imgs) :
                      m.val[Name(imgs[k])] = FrameName(k, imgs[k].suffix)

C3_Witness ==
    /\ handed # None
    /\ ~skip_colmap /\ ~skip_image_processing
    /\ FnCalled("copy_images") /\ FnCalled("_run_colmap")
    /\ handed.val.image_rename_map = None

\* C4: with no usable image in the working input and image processing not
\* skipped, the run aborts before reconstruction: _run_colmap is never called
\* and no manifest is written.
C4_NoImagesAbortsBeforeColmap ==
    (~skip_image_processing /\ pc \notin {"args", "equirect"}
        /\ Len(fs.listing[data]) = 0)
    => /\ pc \in {"images", "error"}
       /\ ~FnCalled("_run_colmap")
       /\ handed = None /\ manifest = None

C4_Witness ==
    /\ ~skip_image_processing /\ ~skip_colmap
    /\ Len(fs.listing[data]) = 0
    /\ pc = "error" /\ err = ErrCopyNoImages
    /\ ~FnCalled("_run_colmap")

\* C5: in every run with an external depth folder of K images, whatever the
\* skip flags, the depth table that Depth Association builds and hands to
\* _save_transforms has the K entries 1..K, entry i being the output depth
\* folder joined with "frame_", i padded to five digits, and the suffix of the
\* i-th depth file.
C5_DepthTableOfExternalFolder ==
    (depth_path # "" /\ image_id_to_depth_path # Unbound) =>
        LET K == Len(fs.listing[depth_path])
            t == image_id_to_depth_path.val
        IN /\ DOMAIN t = 1..K
           /\ \A i \in 1..K :
                 t[i] = "depth/frame_" \o Format05(i) \o fs.listing[depth_path][i].suffix

BadModelPath ==
    colmap_model_path # "default" /\ (~skip_colmap \/ ~fs.model_path)

\* C6: with a reconstruction-result path other than the default, reconstruction
\* must be skipped and the path must exist; otherwise main ends with a fatal
\* error before any stage has started: no collaborator has been called, no
\* manifest written, and camera_type and data are unchanged.
C6_BadModelPathStopsAtOnce ==
    /\ [](BadModelPath =>
            /\ pc \in {"args", "error"}
            /\ (pc = "error" =>
                  err = IF ~skip_colmap THEN ErrSkipColmapNotSet
                        ELSE ErrModelPathMissing)
            /\ calls = << >>
            /\ handed = None /\ manifest = None /\ console = None
            /\ data = DataDir)
    /\ [][BadModelPath => (camera_type' = camera_type /\ data' = data)]_vars

C6_Witness ==
    /\ pc = "error" /\ err = ErrModelPathMissing
    /\ colmap_model_path = "custom" /\ skip_colmap /\ ~fs.model_path
    /\ camera_type = "equirectangular" /\ data = DataDir
    /\ calls = << >>

\* C7: the manifest is written at most once and as the last stage, after
\* preprocessing, reconstruction, depth association and the check of
\* cameras.bin; a run ended by a fatal error of the pipeline has written no
\* manifest; the summary is printed only after the manifest was written.
C7_ManifestLastAndOnce ==
    /\ TimesCalled("_save_transforms") <= 1
    /\ handed # None =>
          /\ calls[Len(calls)].fn = "_save_transforms"
          /\ num_frames # Unbound
          /\ (skip_image_processing \/ FnCalled("save_mask"))
          /\ (skip_colmap \/ FnCalled("_run_colmap"))
          /\ image_id_to_depth_path # Unbound
          /\ (require_cameras_exist.val => fs.cameras_bin)
    /\ manifest # None => (manifest = handed /\ pc \in {"print", "done"})
    /\ (pc = "error" /\ err \in PipelineFatal) => (handed = None /\ manifest = None)
    /\ console # None => (manifest # None /\ pc = "done")

C7_Witness ==
    /\ pc = "done" /\ manifest # None /\ console # None
    /\ ~skip_colmap /\ ~skip_image_processing /\ depth_path # ""

\* C8 as stated: whenever a circular crop (percent radius other than 1.0) or a
\* per-frame mask folder is asked for, save_mask is called in that run, whether
\* or not the image copy is skipped, and a successful run ends with a manifest
\* whose mask reference is set.
C8_MaskWheneverRequested ==
    ((percent_radius_crop # 10 \/ frame_mask_path # "") /\ pc = "done")
    => (FnCalled("save_mask") /\ manifest.val.mask_path # None)

\* C8 amended: save_mask is called exactly when image processing is not
\* skipped, after the image copy; with a circular crop or a per-frame mask
\* folder asked for and image processing not skipped, its outcome is recorded
\* in the summary and a successful run ends with a manifest whose mask
\* reference is set.  With image processing skipped save_mask is never called.
C8_MaskOnlyWithImageProcessing ==
    /\ skip_image_processing => ~FnCalled("save_mask")
    /\ (~skip_image_processing
          /\ pc \in {"copy_depth", "colmap", "depth", "cameras", "mask",
                     "save_transforms", "print", "done"})
       => /\ TimesCalled("save_mask") = 1
          /\ \A i \in DOMAIN calls :
                calls[i].fn = "save_mask" =>
                    /\ calls[i].arg = frame_mask_path
                    /\ i > 1 /\ calls[i - 1].fn = "copy_images"
    /\ (~skip_image_processing /\ pc = "done"
          /\ (percent_radius_crop # 10 \/ frame_mask_path # ""))
       => /\ manifest.val.mask_path # None
          /\ \E k \in DOMAIN console.val : console.val[k] = "Saved mask(s)"

C8_Witness ==
    /\ pc = "done" /\ ~skip_image_processing
    /\ percent_radius_crop = 8 /\ frame_mask_path = ""
    /\ manifest.val.mask_path = Val("masks/mask.png")

Projections == "generate_planar_projections_from_equirectangular"

\* C9: with camera type equirectangular, from the end of the projection step
\* on the camera type is perspective and never equirectangular, and the path
\* the image copy, the image listing and the reconstruction work on is the
\* folder of generated projections, never the original input.
C9_EquirectBecomesPerspective ==
    /\ [][(pc = "equirect" /\ camera_type = "equirectangular" /\ pc' # "error")
            => (camera_type' = "perspective" /\ data' = ProjectionDir)]_vars
    /\ [][pc \notin {"args", "equirect"}
            => (camera_type' = camera_type /\ data' = data)]_vars
    /\ [](camera_type = "equirectangular"
            => \A i \in DOMAIN calls : calls[i].fn = Projections)
    /\ [](FnCalled(Projections) =>
            \A i \in DOMAIN calls :
                (calls[i].fn \in {"copy_images", "list_images", "_run_colmap"}
                    /\ calls[i].arg # depth_path)
                => calls[i].arg = ProjectionDir)
    /\ [](handed # None => handed.val.camera_type # "equirectangular")

C9_Witness ==
    /\ FnCalled(Projections) /\ FnCalled("copy_images") /\ FnCalled("_run_colmap")
    /\ handed # None /\ handed.val.camera_type = "perspective"
    /\ data = ProjectionDir

\* C10 as stated: the check of cameras.bin comes directly after the
\* reconstruction stage, so when it fails neither Depth Association nor
\* _save_transforms has run.
C10_CheckRightAfterReconstruction ==
    err = ErrCamerasMissing =>
        /\ ~FnCalled("_export_depth")
        /\ image_id_to_depth_path = Unbound
        /\ handed = None

StageRank(fn) ==
    CASE fn = Projections -> 1
      [] fn \in {"copy_images", "save_mask", "list_images"} -> 2
      [] fn = "_run_colmap" -> 3
      [] fn = "_export_depth" -> 4
      [] fn = "_save_transforms" -> 5

\* C10 amended: the stages run in the order preprocessing, reconstruction,
\* depth association, manifest, and the check of cameras.bin comes after Depth
\* Association and before the mask resolution and _save_transforms: when
\* cameras.bin is required and absent (also after a reconstruction call that
\* produced none), the fatal error is raised once the depth export or the
\* external depth table has been made, and _save_transforms has not run.
C10_CheckAfterDepthBeforeManifest ==
    /\ \A i \in DOMAIN calls, j \in DOMAIN calls :
          i < j => StageRank(calls[i].fn) <= StageRank(calls[j].fn)
    /\ err = ErrCamerasMissing =>
          /\ pc = "error"
          /\ image_id_to_depth_path # Unbound
          /\ (depth_path = "" => FnCalled("_export_depth"))
          /\ ~FnCalled("_save_transforms") /\ manifest = None
    /\ (pc \in {"mask", "save_transforms", "print", "done"}
          /\ require_cameras_exist.val)
       => fs.cameras_bin

C10_Witness ==
    /\ err = ErrCamerasMissing
    /\ FnCalled("_run_colmap") /\ FnCalled("_export_depth")
    /\ image_id_to_depth_path # Unbound
    /\ handed = None

====
